---------------------------- MODULE Spec2Model ----------------------------
(***************************************************************************)
(* Model of goethe_booking_bot.py: the orchestrator (main_async,           *)
(* _run_for_student), the per-student flow (run_booking with the poll loop *)
(* and the step sequencer) and the AlarmController.                        *)
(*                                                                         *)
(* The browser and the web site are the environment: every Playwright call *)
(* that the code awaits is one step whose outcome (found, not found within *)
(* the timeout, exception) is chosen nondeterministically.                 *)
(***************************************************************************)
EXTENDS Integers, Sequences, FiniteSets

(***************************************************************************)
(* Bounds of the model                                                     *)
(***************************************************************************)
MaxStudents == 2        \* longest student list
MaxButtons == 2         \* most buttons inside .pr-buttons
MantBits == 5           \* bits of a float's significand (53 in CPython)
MaxDblClicks == 1       \* double-clicks the user makes during one alarm
MaxBeeps == 2           \* the beep counter saturates here (it never blocks)
MaxStarts == 3          \* start() calls a client of AlarmController makes
MaxRows == 2            \* most data lines in a CSV file
MaxElements == 2        \* most elements the personal form holds
MaxKeywords == 2        \* most candidate keywords in one element's text
MaxEmptyFields == 1     \* most empty fields in a student record

(***************************************************************************)
(* Program constants                                                       *)
(***************************************************************************)
MAX_REFRESH_MS == 800
ALARM_REPEAT_SEC == 60

Emails == {"a@x", "b@x"}

NoExc == "none"

(***************************************************************************)
(* Floating point: a non-negative float is kept as an integer count of a   *)
(* fixed unit; FloatRound rounds a quotient to MantBits significant bits,  *)
(* ties to even, as IEEE-754 multiplication and division do.               *)
(***************************************************************************)
Pow2(n) == 2 ^ n

RECURSIVE BitLen(_)
BitLen(n) == IF n = 0 THEN 0 ELSE 1 + BitLen(n \div 2)

RoundHalfEven(num, den) ==
    LET q == num \div den
        r == num % den
    IN  IF 2 * r < den THEN q
        ELSE IF 2 * r > den THEN q + 1
        ELSE IF q % 2 = 0 THEN q ELSE q + 1

FloatRound(num, den) ==
    LET s == BitLen(num \div den) - MantBits
    IN  IF s <= 0 THEN RoundHalfEven(num, den)
        ELSE RoundHalfEven(num, den * Pow2(s)) * Pow2(s)

\* random.random(): r / 2^MantBits for r in RandomDraws, i.e. [0.0, 1.0)
RandomDraws == 0 .. (Pow2(MantBits) - 1)

\* random.uniform(a, b) = a + (b - a) * random(), in units of 2^-MantBits
uniform(a, b, r) == a * Pow2(MantBits) + FloatRound((b - a) * r, 1)

\* One second, in the unit the delay is kept in
DelayUnit == Pow2(2 * MantBits + 2)

\* the reload delay in seconds with the division by 1000 left out
rand_refresh_delay_ms_as_s(r) == uniform(0, MAX_REFRESH_MS, r) * Pow2(MantBits + 2)

\* _rand_refresh_delay(): uniform(0, MAX_REFRESH_MS) / 1000, in DelayUnit-ths
\* of a second
rand_refresh_delay(r) ==
    FloatRound(uniform(0, MAX_REFRESH_MS, r) * Pow2(MantBits + 2), 1000)

(***************************************************************************)
(* State                                                                   *)
(***************************************************************************)
VARIABLES
    students,     \* the list main_async iterates over (emails)
    idx,          \* position of the for loop: the current student, 0 before
    results,      \* main_async's results list: <<email, ok>> pairs
    printed,      \* the "<email>: SUCCESS|FAILED" lines main has printed
    browserOpen,  \* the browser is launched and not closed
    openCtx,      \* students whose browsing context is open
    pc,           \* position of the main coroutine
    cont,         \* who called _goto_start: "poll" (line 478) or "fail"
    ok,           \* _run_for_student's local ok
    exc,          \* the exception that is propagating, by where it was raised
    page,         \* the page: location, overlay step run, data typed into
                  \* the document that is showing
    attempts,     \* what the current poll iteration has tried so far; empty
                  \* outside _poll_until_select_modules and its return
    delay,        \* the poll loop's local delay, 0 when it is not sleeping
    filled,       \* _login's local filled
    lastLog,      \* the last line written by _log (level and message)
    stopFlag,     \* AlarmController._stop
    task,         \* AlarmController._task: 0 for None, else an index in loops
    loops,        \* the _run tasks created so far: position, seconds waited
    binding,      \* window.__goetheStopAlarm is exposed
    initScript,   \* the init script is registered for documents to come
    listener,     \* the current document has the dblclick listener armed
    dblClicks,    \* double-clicks made by the user on the page
    tried,        \* _login: what each email and each password selector did,
                  \* <<>> outside _login
    form,         \* _fill_personal_form element by element: the student's
                  \* record, the elements left, the element just processed
    loader        \* build_students and load_students_from_csv: arguments,
                  \* file, environment, rows read so far, returned list

mainVars == <<students, idx, results, printed, browserOpen, openCtx>>
flowVars == <<pc, cont, ok, exc, page, attempts, delay, filled, lastLog>>
alarmVars == <<stopFlag, task, loops>>
pageEvtVars == <<binding, initScript, listener, dblClicks>>
detailVars == <<tried, form, loader>>
vars == <<mainVars, flowVars, alarmVars, pageEvtVars, detailVars>>

\* _fill_personal_form is not running
NoForm == [at |-> "idle"]

\* build_students is not running
NoLoader == [at |-> "idle"]

BlankPage == [loc |-> "blank", dismissRan |-> FALSE, typed |-> {}]

\* The document a navigation to START_URL or a reload of it produces
StartDocument == [loc |-> "start", dismissRan |-> FALSE, typed |-> {}]

StudentLists == UNION {[1..n -> Emails] : n \in 1..MaxStudents}

Min(a, b) == IF a < b THEN a ELSE b

Init ==
    /\ students \in StudentLists
    /\ idx = 0
    /\ results = <<>>
    /\ printed = <<>>
    /\ browserOpen = FALSE
    /\ openCtx = {}
    /\ pc = "launch"
    /\ cont = "poll"
    /\ ok = FALSE
    /\ exc = NoExc
    /\ page = BlankPage
    /\ attempts = <<>>
    /\ delay = 0
    /\ filled = FALSE
    /\ lastLog = "none"
    /\ stopFlag = FALSE
    /\ task = 0
    /\ loops = <<>>
    /\ binding = FALSE
    /\ initScript = FALSE
    /\ listener = FALSE
    /\ dblClicks = 0
    /\ tried = <<>>
    /\ form = NoForm
    /\ loader = NoLoader


(***************************************************************************)
(* Orchestrator: main_async and _run_for_student                           *)
(***************************************************************************)

\* _run_for_student with a try that has no finally clause: the exception
\* leaves the function without closing the context
Raise_without_finally(site) ==
    /\ pc' = "crashed"
    /\ exc' = site

\* An exception raised inside run_booking leaves it and reaches the finally
\* clause of _run_for_student
Raise(site) ==
    /\ pc' = "ctx_close"
    /\ exc' = site

\* main_async: async_playwright() and chromium.launch succeed
launch_ok ==
    /\ pc = "launch"
    /\ browserOpen' = TRUE
    /\ lastLog' = "INFO launching browser"
    /\ pc' = "loop"
    /\ UNCHANGED <<students, idx, results, printed, openCtx>>
    /\ UNCHANGED <<cont, ok, exc, page, attempts, delay, filled>>
    /\ UNCHANGED <<alarmVars, pageEvtVars>>
    /\ UNCHANGED detailVars

\* main_async: the browser cannot be launched; the process ends
launch_raise ==
    /\ pc = "launch"
    /\ lastLog' = "INFO launching browser"
    /\ exc' = "launch"
    /\ pc' = "crashed"
    /\ UNCHANGED <<mainVars, cont, ok, page, attempts, delay, filled>>
    /\ UNCHANGED <<alarmVars, pageEvtVars>>
    /\ UNCHANGED detailVars

\* main_async: for s in students, next student; _run_for_student up to the
\* await of browser.new_context
loop_next ==
    /\ pc = "loop"
    /\ idx < Len(students)
    /\ idx' = idx + 1
    /\ lastLog' = "INFO new context"
    /\ pc' = "new_context"
    /\ UNCHANGED <<students, results, printed, browserOpen, openCtx>>
    /\ UNCHANGED <<cont, ok, exc, page, attempts, delay, filled>>
    /\ UNCHANGED <<alarmVars, pageEvtVars>>
    /\ UNCHANGED detailVars

\* main_async: the list is exhausted: browser.close(), return results;
\* main prints one line per result
loop_end ==
    /\ pc = "loop"
    /\ idx = Len(students)
    /\ browserOpen' = FALSE
    /\ lastLog' = "INFO browser closed"
    /\ printed' = [i \in 1..Len(results) |->
                     <<results[i][1], IF results[i][2] THEN "SUCCESS" ELSE "FAILED">>]
    /\ pc' = "done"
    /\ UNCHANGED <<students, idx, results, openCtx>>
    /\ UNCHANGED <<cont, ok, exc, page, attempts, delay, filled>>
    /\ UNCHANGED <<alarmVars, pageEvtVars>>
    /\ UNCHANGED detailVars

\* _run_for_student: ctx = await _new_context(browser)
new_context_ok ==
    /\ pc = "new_context"
    /\ openCtx' = openCtx \cup {idx}
    /\ pc' = "new_page"
    /\ UNCHANGED <<students, idx, results, printed, browserOpen>>
    /\ UNCHANGED <<cont, ok, exc, page, attempts, delay, filled, lastLog>>
    /\ UNCHANGED <<alarmVars, pageEvtVars>>
    /\ UNCHANGED detailVars

\* _run_for_student: new_context raises, outside the try: nothing catches it
new_context_raise ==
    /\ pc = "new_context"
    /\ exc' = "new_context"
    /\ pc' = "crashed"
    /\ UNCHANGED <<mainVars, cont, ok, page, attempts, delay, filled, lastLog>>
    /\ UNCHANGED <<alarmVars, pageEvtVars>>
    /\ UNCHANGED detailVars

\* _run_for_student: page = await ctx.new_page(); ok = False; run_booking is
\* entered and runs to the await of page.goto in _goto_start.  The page is
\* new (no binding, no init script) and this run has no AlarmController yet
new_page_ok ==
    /\ pc = "new_page"
    /\ page' = BlankPage
    /\ ok' = FALSE
    /\ cont' = "poll"
    /\ attempts' = <<>>
    /\ delay' = 0
    /\ filled' = FALSE
    /\ lastLog' = "INFO navigating start"
    /\ binding' = FALSE
    /\ initScript' = FALSE
    /\ listener' = FALSE
    /\ dblClicks' = 0
    /\ stopFlag' = FALSE
    /\ task' = 0
    /\ loops' = <<>>
    /\ pc' = "goto"
    /\ UNCHANGED <<mainVars, exc>>
    /\ UNCHANGED detailVars

\* _run_for_student: new_page raises, outside the try: the context stays open
new_page_raise ==
    /\ pc = "new_page"
    /\ exc' = "new_page"
    /\ pc' = "crashed"
    /\ UNCHANGED <<mainVars, cont, ok, page, attempts, delay, filled, lastLog>>
    /\ UNCHANGED <<alarmVars, pageEvtVars>>
    /\ UNCHANGED detailVars

\* _run_for_student whose finally clause only logs: the context is not closed
ctx_close_ok_leaves_open ==
    /\ pc = "ctx_close"
    /\ openCtx' = openCtx
    /\ IF exc = NoExc
         THEN /\ results' = Append(results, <<students[idx], ok>>)
              /\ lastLog' = "INFO end student"
              /\ pc' = "loop"
         ELSE /\ results' = results
              /\ lastLog' = "INFO context closed"
              /\ pc' = "crashed"
    /\ UNCHANGED <<students, idx, printed, browserOpen>>
    /\ UNCHANGED <<cont, ok, exc, page, attempts, delay, filled>>
    /\ UNCHANGED <<alarmVars, pageEvtVars>>
    /\ UNCHANGED detailVars

\* _run_for_student: finally: ctx.close() succeeds.  Without a propagating
\* exception ok is returned and main_async appends (email, ok); with one, the
\* exception goes on through main_async, which has no handler
ctx_close_ok ==
    /\ pc = "ctx_close"
    /\ openCtx' = openCtx \ {idx}
    /\ IF exc = NoExc
         THEN /\ results' = Append(results, <<students[idx], ok>>)
              /\ lastLog' = "INFO end student"
              /\ pc' = "loop"
         ELSE /\ results' = results
              /\ lastLog' = "INFO context closed"
              /\ pc' = "crashed"
    /\ UNCHANGED <<students, idx, printed, browserOpen>>
    /\ UNCHANGED <<cont, ok, exc, page, attempts, delay, filled>>
    /\ UNCHANGED <<alarmVars, pageEvtVars>>
    /\ UNCHANGED detailVars

\* _run_for_student: finally: ctx.close() itself raises
ctx_close_raise ==
    /\ pc = "ctx_close"
    /\ exc' = "ctx_close"
    /\ pc' = "crashed"
    /\ UNCHANGED <<mainVars, cont, ok, page, attempts, delay, filled, lastLog>>
    /\ UNCHANGED <<alarmVars, pageEvtVars>>
    /\ UNCHANGED detailVars

(***************************************************************************)
(* _goto_start and _handle_privacy_popup                                   *)
(***************************************************************************)

\* _goto_start: page.goto(START_URL) succeeds: a new document is loaded
goto_start_ok ==
    /\ pc = "goto"
    /\ page' = StartDocument
    /\ listener' = initScript
    /\ pc' = "privacy"
    /\ UNCHANGED <<mainVars, cont, ok, exc, attempts, delay, filled, lastLog>>
    /\ UNCHANGED <<alarmVars, binding, initScript, dblClicks>>
    /\ UNCHANGED detailVars

\* _goto_start: page.goto raises; _goto_start and its callers have no handler
goto_start_raise ==
    /\ pc = "goto"
    /\ Raise("goto")
    /\ UNCHANGED <<mainVars, cont, ok, page, attempts, delay, filled, lastLog>>
    /\ UNCHANGED <<alarmVars, pageEvtVars>>
    /\ UNCHANGED detailVars

PrivacyOutcomes ==
    {"PASS privacy accepted", "PASS privacy denied fallback",
     "INFO privacy settings clicked", "ERROR privacy popup handling error",
     "INFO checking privacy popup"}

\* The return of _goto_start to its caller: run_booking line 479 enters the
\* poll loop; a failing step returns False from run_booking
AfterGotoStart == IF cont = "poll" THEN "poll_primary" ELSE "ctx_close"

\* _handle_privacy_popup: whatever it finds or raises, it returns normally;
\* then _goto_start returns (or the poll loop goes round)
handle_privacy_popup ==
    /\ pc = "privacy"
    /\ \E o \in PrivacyOutcomes : lastLog' = o
    /\ page' = [page EXCEPT !.dismissRan = TRUE]
    /\ pc' = AfterGotoStart
    /\ UNCHANGED <<mainVars, cont, ok, exc, attempts, delay, filled>>
    /\ UNCHANGED <<alarmVars, pageEvtVars>>
    /\ UNCHANGED detailVars

\* Restart with the navigation left out: log FAIL, return False
Restart_no_goto(msg) ==
    /\ lastLog' = msg
    /\ cont' = "fail"
    /\ pc' = "ctx_close"

\* The restart of a failing step: log FAIL, then _goto_start, then return False
Restart(msg) ==
    /\ lastLog' = msg
    /\ cont' = "fail"
    /\ pc' = "goto"

(***************************************************************************)
(* _poll_until_select_modules                                              *)
(***************************************************************************)

\* 1. the control is found, becomes visible and is clicked: return
poll_primary_click ==
    /\ pc = "poll_primary"
    /\ attempts' = <<"primary_click">>
    /\ page' = [page EXCEPT !.loc = "modules_selected"]
    /\ lastLog' = "PASS select modules clicked"
    /\ pc' = "continue_1"
    /\ UNCHANGED <<mainVars, cont, ok, exc, delay, filled>>
    /\ UNCHANGED <<alarmVars, pageEvtVars>>
    /\ UNCHANGED detailVars

\* 1. wait_for times out (nothing logged), or lookup, wait or click raises
\* another exception (logged)
poll_primary_miss ==
    /\ pc = "poll_primary"
    /\ \/ /\ attempts' = <<"primary_timeout">>
          /\ lastLog' = lastLog
       \/ /\ attempts' = <<"primary_error">>
          /\ lastLog' = "ERROR select modules error"
    /\ pc' = "poll_fallback"
    /\ UNCHANGED <<mainVars, cont, ok, exc, page, delay, filled>>
    /\ UNCHANGED <<alarmVars, pageEvtVars>>
    /\ UNCHANGED detailVars

ButtonLists ==
    UNION {[1..n -> {"enabled", "disabled", "raises"}] : n \in 0..MaxButtons}

\* _find_enabled_exam_button: the index of the first button whose disabled
\* attribute is None, skipping those whose get_attribute raises; 0 for None
RECURSIVE FirstEnabledFrom(_, _)
FirstEnabledFrom(buttons, i) ==
    IF i > Len(buttons) THEN 0
    ELSE IF buttons[i] = "enabled" THEN i
    ELSE FirstEnabledFrom(buttons, i + 1)

find_enabled_exam_button(buttons) == FirstEnabledFrom(buttons, 1)

\* 3. (first half) delay = _rand_refresh_delay(), log, up to the await of
\* asyncio.sleep(delay)
DrawDelay ==
    /\ \E r \in RandomDraws : delay' = rand_refresh_delay(r)
    /\ lastLog' = "INFO select modules not visible; reloading"
    /\ pc' = "poll_reload"

\* poll_fallback with the return outside the if: the loop returns whether or
\* not an enabled button was found
poll_fallback_return_without_click ==
    /\ pc = "poll_fallback"
    /\ \E buttons \in ButtonLists, click \in {"clicked", "raises"} :
         LET b == find_enabled_exam_button(buttons)
         IN  IF click = "clicked"
               THEN /\ attempts' = Append(attempts,
                           IF b # 0 THEN "fallback_click" ELSE "fallback_none")
                    /\ page' = IF b # 0
                                 THEN [page EXCEPT !.loc = "modules_selected"]
                                 ELSE page
                    /\ lastLog' = "PASS exam button clicked"
                    /\ pc' = "continue_1"
                    /\ delay' = delay
               ELSE /\ attempts' = Append(attempts,
                           IF b = 0 THEN "fallback_none" ELSE "fallback_error")
                    /\ page' = page
                    /\ DrawDelay
    /\ UNCHANGED <<mainVars, cont, ok, exc, filled>>
    /\ UNCHANGED <<alarmVars, pageEvtVars>>
    /\ UNCHANGED detailVars

\* 2. the scan of .pr-buttons: an enabled button is clicked and the loop
\* returns; with no enabled button, or with a click that raises (logged), the
\* iteration goes on to 3
poll_fallback ==
    /\ pc = "poll_fallback"
    /\ \E buttons \in ButtonLists, click \in {"clicked", "raises"} :
         LET b == find_enabled_exam_button(buttons)
         IN  IF b # 0 /\ click = "clicked"
               THEN /\ attempts' = Append(attempts, "fallback_click")
                    /\ page' = [page EXCEPT !.loc = "modules_selected"]
                    /\ lastLog' = "PASS exam button clicked"
                    /\ pc' = "continue_1"
                    /\ delay' = delay
               ELSE /\ attempts' = Append(attempts,
                           IF b = 0 THEN "fallback_none" ELSE "fallback_error")
                    /\ page' = page
                    /\ DrawDelay
    /\ UNCHANGED <<mainVars, cont, ok, exc, filled>>
    /\ UNCHANGED <<alarmVars, pageEvtVars>>
    /\ UNCHANGED detailVars

\* 2. query_selector_all raises: logged, the iteration goes on to 3
poll_fallback_scan_raise ==
    /\ pc = "poll_fallback"
    /\ attempts' = Append(attempts, "fallback_error")
    /\ DrawDelay
    /\ UNCHANGED <<mainVars, cont, ok, exc, page, filled>>
    /\ UNCHANGED <<alarmVars, pageEvtVars>>
    /\ UNCHANGED detailVars

\* poll_reload_ok without the call of _handle_privacy_popup after the reload
poll_reload_ok_no_dismiss ==
    /\ pc = "poll_reload"
    /\ attempts' = Append(attempts, "reload_ok")
    /\ page' = StartDocument
    /\ listener' = initScript
    /\ lastLog' = "RELOAD_OK page reloaded"
    /\ delay' = 0
    /\ pc' = "poll_primary"
    /\ UNCHANGED <<mainVars, cont, ok, exc, filled>>
    /\ UNCHANGED <<alarmVars, binding, initScript, dblClicks>>
    /\ UNCHANGED detailVars

\* 3. the sleep is over and page.reload succeeds: up to _handle_privacy_popup
poll_reload_ok ==
    /\ pc = "poll_reload"
    /\ attempts' = Append(attempts, "reload_ok")
    /\ page' = StartDocument
    /\ listener' = initScript
    /\ lastLog' = "RELOAD_OK page reloaded"
    /\ delay' = 0
    /\ pc' = "privacy"
    /\ UNCHANGED <<mainVars, cont, ok, exc, filled>>
    /\ UNCHANGED <<alarmVars, binding, initScript, dblClicks>>
    /\ UNCHANGED detailVars

\* 3. with a return in place of the continue: a failed reload ends the loop
poll_reload_err_gives_up ==
    /\ pc = "poll_reload"
    /\ attempts' = Append(attempts, "reload_err")
    /\ lastLog' = "RELOAD_ERR reload error"
    /\ delay' = 0
    /\ pc' = "continue_1"
    /\ UNCHANGED <<mainVars, cont, ok, exc, page, filled>>
    /\ UNCHANGED <<alarmVars, pageEvtVars>>
    /\ UNCHANGED detailVars

\* 3. page.reload raises: logged, continue with the next iteration
poll_reload_err ==
    /\ pc = "poll_reload"
    /\ attempts' = Append(attempts, "reload_err")
    /\ lastLog' = "RELOAD_ERR reload error"
    /\ delay' = 0
    /\ pc' = "poll_primary"
    /\ UNCHANGED <<mainVars, cont, ok, exc, page, filled>>
    /\ UNCHANGED <<alarmVars, pageEvtVars>>
    /\ UNCHANGED detailVars

(***************************************************************************)
(* Step sequencer: _try_click_text, _advance_or_restart, _login,           *)
(* _fill_personal_form, the confirmation wait                              *)
(***************************************************************************)

\* _try_click_text: True after a click, False when no candidate becomes
\* visible within DEFAULT_TIMEOUT; el.click() in _safe_click may raise
TryClickOutcomes == {"clicked", "not_found", "raises"}

AdvanceSteps == {"continue_1", "book_for_myself", "continue_2", "order"}

\* run_booking without its call of _login
NextStep_without_login(step) ==
    CASE step = "continue_1" -> "book_for_myself"
      [] step = "book_for_myself" -> "personal"
      [] step = "login_click" -> "personal"
      [] step = "personal_click" -> "continue_2"
      [] step = "continue_2" -> "order"
      [] step = "order" -> "confirm"

\* run_booking, lines 481-497: the step that follows each step
NextStep(step) ==
    CASE step = "continue_1" -> "book_for_myself"
      [] step = "book_for_myself" -> "login"
      [] step = "login_click" -> "personal"
      [] step = "personal_click" -> "continue_2"
      [] step = "continue_2" -> "order"
      [] step = "order" -> "confirm"

\* where the site is after the step's control was clicked
LocAfter(step) ==
    CASE step = "continue_1" -> "continued_1"
      [] step = "book_for_myself" -> "book_for_self"
      [] step = "login_click" -> "logged_in"
      [] step = "personal_click" -> "details_filled"
      [] step = "continue_2" -> "continued_2"
      [] step = "order" -> "order_confirmed"

\* A step's _try_click_text and what follows it: proceed after the click,
\* restart when the control is not found, propagate when the click raises
ClickOrRestart(o, failMsg) ==
    CASE o = "clicked" ->
           /\ page' = [page EXCEPT !.loc = LocAfter(pc), !.typed = {}]
           /\ lastLog' = "PASS clicked"
           /\ pc' = NextStep(pc)
           /\ UNCHANGED <<cont, exc>>
      [] o = "not_found" ->
           /\ Restart(failMsg)
           /\ UNCHANGED <<page, exc>>
      [] o = "raises" ->
           /\ Raise("click")
           /\ UNCHANGED <<page, cont, lastLog>>

\* _advance_or_restart, for CONTINUE, BOOK FOR MYSELF, the second CONTINUE
\* and ORDER, SUBJECT TO CHANGE
advance_or_restart ==
    /\ pc \in AdvanceSteps
    /\ \E o \in TryClickOutcomes : ClickOrRestart(o, "FAIL did not find, restart")
    /\ attempts' = <<>>
    /\ UNCHANGED <<mainVars, ok, delay, filled>>
    /\ UNCHANGED <<alarmVars, pageEvtVars>>
    /\ UNCHANGED detailVars

\* What one selector of _login does: query_selector finds nothing, or the
\* field is filled, or query_selector or fill raises (logged, next selector)
SelectorOutcomes == [1..3 -> {"absent", "filled", "raises"}]

\* The selector the for loop breaks at: the first one filled; 0 if none
RECURSIVE FirstFilledFrom(_, _)
FirstFilledFrom(outs, i) ==
    IF i > Len(outs) THEN 0
    ELSE IF outs[i] = "filled" THEN i
    ELSE FirstFilledFrom(outs, i + 1)

\* _login whose selector loops have no break: every selector that exists is
\* filled
login_fill_no_break ==
    /\ pc = "login"
    /\ \E eo \in SelectorOutcomes, po \in SelectorOutcomes :
         /\ filled' = (\E i \in 1..3 : eo[i] = "filled")
         /\ page' = [page EXCEPT !.typed =
                page.typed
                  \cup {<<"email", i>> : i \in {j \in 1..3 : eo[j] = "filled"}}
                  \cup {<<"password", i>> : i \in {j \in 1..3 : po[j] = "filled"}}]
         /\ tried' = [email |-> eo, password |-> po]
    /\ lastLog' = "INFO login step"
    /\ pc' = "login_click"
    /\ UNCHANGED <<mainVars, cont, ok, exc, attempts, delay>>
    /\ UNCHANGED <<alarmVars, pageEvtVars>>
    /\ UNCHANGED <<form, loader>>

\* _login, lines 338-361: the two selector loops
login_fill ==
    /\ pc = "login"
    /\ \E eo \in SelectorOutcomes, po \in SelectorOutcomes :
         LET e == FirstFilledFrom(eo, 1)
             p == FirstFilledFrom(po, 1)
         IN  /\ filled' = (e # 0)
             /\ page' = [page EXCEPT !.typed =
                    page.typed
                      \cup (IF e # 0 THEN {<<"email", e>>} ELSE {})
                      \cup (IF p # 0 THEN {<<"password", p>>} ELSE {})]
             /\ tried' = [email |-> eo, password |-> po]
    /\ lastLog' = "INFO login step"
    /\ pc' = "login_click"
    /\ UNCHANGED <<mainVars, cont, ok, exc, attempts, delay>>
    /\ UNCHANGED <<alarmVars, pageEvtVars>>
    /\ UNCHANGED <<form, loader>>

\* _login, lines 363-370: filled and _try_click_text(...); else restart
login_click ==
    /\ pc = "login_click"
    /\ IF filled
         THEN \E o \in TryClickOutcomes :
                ClickOrRestart(o, "FAIL login step failed restart")
         ELSE /\ Restart("FAIL login step failed restart")
              /\ UNCHANGED <<page, exc>>
    /\ UNCHANGED <<mainVars, ok, attempts, delay, filled>>
    /\ UNCHANGED <<alarmVars, pageEvtVars>>
    /\ UNCHANGED <<form, loader>>
    /\ tried' = <<>>

\* _fill_personal_form, lines 395-412: the elements are scanned; each is
\* filled, left alone, or its exception is logged and skipped
personal_fill ==
    /\ pc = "personal"
    /\ \E any \in BOOLEAN :
         page' = [page EXCEPT !.typed =
                    page.typed \cup (IF any THEN {<<"details", 0>>} ELSE {})]
    /\ lastLog' = "INFO personal form step"
    /\ pc' = "personal_click"
    /\ UNCHANGED <<mainVars, cont, ok, exc, attempts, delay, filled>>
    /\ UNCHANGED <<alarmVars, pageEvtVars>>
    /\ UNCHANGED detailVars

\* _fill_personal_form, line 395: query_selector_all raises, outside the try
personal_query_raise ==
    /\ pc = "personal"
    /\ Raise("query")
    /\ UNCHANGED <<mainVars, cont, ok, page, attempts, delay, filled, lastLog>>
    /\ UNCHANGED <<alarmVars, pageEvtVars>>
    /\ UNCHANGED detailVars

\* _fill_personal_form, lines 414-420: CONTINUE, else restart
personal_click ==
    /\ pc = "personal_click"
    /\ \E o \in TryClickOutcomes :
         ClickOrRestart(o, "FAIL personal form continue missing restart")
    /\ UNCHANGED <<mainVars, ok, attempts, delay, filled>>
    /\ UNCHANGED <<alarmVars, pageEvtVars>>
    /\ UNCHANGED detailVars

\* run_booking, lines 495-498: the confirmation text becomes visible
confirm_visible ==
    /\ pc = "confirm"
    /\ page' = [page EXCEPT !.loc = "confirmation_visible"]
    /\ lastLog' = "PASS confirmation text visible"
    /\ pc' = "install"
    /\ UNCHANGED <<mainVars, cont, ok, exc, attempts, delay, filled>>
    /\ UNCHANGED <<alarmVars, pageEvtVars>>
    /\ UNCHANGED detailVars

\* run_booking, lines 499-502: the wait times out or raises: restart
confirm_not_visible ==
    /\ pc = "confirm"
    /\ Restart("FAIL confirmation not visible")
    /\ UNCHANGED <<mainVars, ok, exc, page, attempts, delay, filled>>
    /\ UNCHANGED <<alarmVars, pageEvtVars>>
    /\ UNCHANGED detailVars

(***************************************************************************)
(* AlarmController                                                         *)
(***************************************************************************)

NewLoop == [pc |-> "check", waited |-> 0, beeps |-> 0]

\* AlarmController.__init__
NewController ==
    /\ stopFlag' = FALSE
    /\ task' = 0
    /\ loops' = <<>>

\* self._task.done()
TaskDone == task # 0 /\ loops[task].pc = "done"

\* start without its test of self._task: the flag is cleared and a task is
\* created at every call
start_unguarded ==
    /\ stopFlag' = FALSE
    /\ loops' = Append(loops, NewLoop)
    /\ task' = Len(loops) + 1

\* start without self._stop.clear()
start_keeps_flag ==
    IF task = 0 \/ TaskDone
      THEN /\ stopFlag' = stopFlag
           /\ loops' = Append(loops, NewLoop)
           /\ task' = Len(loops) + 1
      ELSE UNCHANGED alarmVars

\* AlarmController.start
start ==
    IF task = 0 \/ TaskDone
      THEN /\ stopFlag' = FALSE
           /\ loops' = Append(loops, NewLoop)
           /\ task' = Len(loops) + 1
      ELSE UNCHANGED alarmVars

\* AlarmController.stop
stop ==
    /\ stopFlag' = TRUE
    /\ UNCHANGED <<task, loops>>

\* AlarmController._run: the while condition; when the flag is clear, on to
\* the await of _beep_once (a beep begins), else the task ends
run_check(i) ==
    /\ loops[i].pc = "check"
    /\ loops' = [loops EXCEPT ![i] =
                   IF stopFlag
                     THEN [@ EXCEPT !.pc = "done"]
                     ELSE [@ EXCEPT !.pc = "beep",
                                    !.beeps = Min(@ + 1, MaxBeeps)]]
    /\ UNCHANGED <<stopFlag, task>>
    /\ UNCHANGED <<mainVars, flowVars, pageEvtVars>>
    /\ UNCHANGED detailVars

\* AlarmController._run: the beep is over; wait_for(self._stop.wait(), 60)
\* begins
run_beep_end(i) ==
    /\ loops[i].pc = "beep"
    /\ loops' = [loops EXCEPT ![i] = [@ EXCEPT !.pc = "wait", !.waited = 0]]
    /\ UNCHANGED <<stopFlag, task>>
    /\ UNCHANGED <<mainVars, flowVars, pageEvtVars>>
    /\ UNCHANGED detailVars

\* _run with asyncio.sleep(ALARM_REPEAT_SEC) in place of the wait on the
\* event: time passes whether the flag is set or not
run_wait_tick_ignores_stop(i) ==
    /\ loops[i].pc = "wait"
    /\ loops[i].waited < ALARM_REPEAT_SEC
    /\ loops' = [loops EXCEPT ![i] = [@ EXCEPT !.waited = @ + 1]]
    /\ UNCHANGED <<stopFlag, task>>
    /\ UNCHANGED <<mainVars, flowVars, pageEvtVars>>
    /\ UNCHANGED detailVars

\* one second of the wait passes
run_wait_tick(i) ==
    /\ loops[i].pc = "wait"
    /\ ~stopFlag
    /\ loops[i].waited < ALARM_REPEAT_SEC
    /\ loops' = [loops EXCEPT ![i] = [@ EXCEPT !.waited = @ + 1]]
    /\ UNCHANGED <<stopFlag, task>>
    /\ UNCHANGED <<mainVars, flowVars, pageEvtVars>>
    /\ UNCHANGED detailVars

\* run_wait_timeout with the timeout ending the loop instead of repeating it
run_wait_timeout_ends(i) ==
    /\ loops[i].pc = "wait"
    /\ ~stopFlag
    /\ loops[i].waited = ALARM_REPEAT_SEC
    /\ loops' = [loops EXCEPT ![i] = [@ EXCEPT !.pc = "done", !.waited = 0]]
    /\ UNCHANGED <<stopFlag, task>>
    /\ UNCHANGED <<mainVars, flowVars, pageEvtVars>>
    /\ UNCHANGED detailVars

\* AlarmController._run: ALARM_REPEAT_SEC have passed: asyncio.TimeoutError,
\* continue
run_wait_timeout(i) ==
    /\ loops[i].pc = "wait"
    /\ ~stopFlag
    /\ loops[i].waited = ALARM_REPEAT_SEC
    /\ loops' = [loops EXCEPT ![i] = [@ EXCEPT !.pc = "check", !.waited = 0]]
    /\ UNCHANGED <<stopFlag, task>>
    /\ UNCHANGED <<mainVars, flowVars, pageEvtVars>>
    /\ UNCHANGED detailVars

\* AlarmController._run: the event is set, self._stop.wait() returns
run_wait_signalled(i) ==
    /\ loops[i].pc = "wait"
    /\ stopFlag
    /\ loops' = [loops EXCEPT ![i] = [@ EXCEPT !.pc = "check", !.waited = 0]]
    /\ UNCHANGED <<stopFlag, task>>
    /\ UNCHANGED <<mainVars, flowVars, pageEvtVars>>
    /\ UNCHANGED detailVars

(***************************************************************************)
(* run_booking, lines 504-511: the alarm                                   *)
(***************************************************************************)

\* alarm = AlarmController(); _install_doubleclick_stop: expose_binding and
\* add_init_script.  An init script runs in the documents created after it
\* was added, so the document that is showing has no dblclick listener
install_doubleclick_stop ==
    /\ pc = "install"
    /\ NewController
    /\ binding' = TRUE
    /\ initScript' = TRUE
    /\ pc' = "alarm_start"
    /\ UNCHANGED <<mainVars, cont, ok, exc, page, attempts, delay, filled, lastLog>>
    /\ UNCHANGED <<listener, dblClicks>>
    /\ UNCHANGED detailVars

\* expose_binding or add_init_script raises
install_raise ==
    /\ pc = "install"
    /\ NewController
    /\ \E exposed \in BOOLEAN : binding' = exposed
    /\ Raise("install")
    /\ UNCHANGED <<mainVars, cont, ok, page, attempts, delay, filled, lastLog>>
    /\ UNCHANGED <<initScript, listener, dblClicks>>
    /\ UNCHANGED detailVars

\* alarm.start(), log, up to the await in wait_stopped
alarm_start ==
    /\ pc = "alarm_start"
    /\ start
    /\ lastLog' = "INFO alarm started waiting for double-click"
    /\ pc' = "alarm_wait"
    /\ UNCHANGED <<mainVars, cont, ok, exc, page, attempts, delay, filled>>
    /\ UNCHANGED pageEvtVars
    /\ UNCHANGED detailVars

\* await alarm.wait_stopped() returns; run_booking returns True
alarm_wait_stopped ==
    /\ pc = "alarm_wait"
    /\ task = 0 \/ TaskDone
    /\ lastLog' = "PASS alarm stopped"
    /\ ok' = TRUE
    /\ pc' = "ctx_close"
    /\ UNCHANGED <<mainVars, cont, exc, page, attempts, delay, filled>>
    /\ UNCHANGED <<alarmVars, pageEvtVars>>
    /\ UNCHANGED detailVars

\* the page of a student whose alarm has been set up is in front of the user
AlarmPhase == pc \in {"alarm_start", "alarm_wait"}

\* The user double-clicks the page.  A document with the listener calls the
\* binding (_stop_alarm_binding: log, alarm.stop()) and, the listener being
\* { once: true }, loses it; a document without it does nothing
user_dblclick ==
    /\ AlarmPhase
    /\ dblClicks < MaxDblClicks
    /\ dblClicks' = dblClicks + 1
    /\ IF listener
         THEN /\ listener' = FALSE
              /\ IF binding
                   THEN /\ stop
                        /\ lastLog' = "INFO double-click stop alarm"
                   ELSE UNCHANGED <<alarmVars, lastLog>>
         ELSE UNCHANGED <<alarmVars, listener, lastLog>>
    /\ UNCHANGED <<mainVars, pc, cont, ok, exc, page, attempts, delay, filled>>
    /\ UNCHANGED <<binding, initScript>>
    /\ UNCHANGED detailVars

\* The page shows a new document (the user reloads it, or the site
\* navigates): the init script arms the listener in it
user_navigate ==
    /\ AlarmPhase
    /\ ~listener
    /\ listener' = initScript
    /\ UNCHANGED <<mainVars, flowVars, alarmVars>>
    /\ UNCHANGED <<binding, initScript, dblClicks>>
    /\ UNCHANGED detailVars

(***************************************************************************)
(* The program                                                             *)
(***************************************************************************)
Next ==
    \/ launch_ok
    \/ launch_raise
    \/ loop_next
    \/ loop_end
    \/ new_context_ok
    \/ new_context_raise
    \/ new_page_ok
    \/ new_page_raise
    \/ ctx_close_ok
    \/ ctx_close_raise
    \/ goto_start_ok
    \/ goto_start_raise
    \/ handle_privacy_popup
    \/ poll_primary_click
    \/ poll_primary_miss
    \/ poll_fallback
    \/ poll_fallback_scan_raise
    \/ poll_reload_ok
    \/ poll_reload_err
    \/ advance_or_restart
    \/ login_fill
    \/ login_click
    \/ personal_fill
    \/ personal_query_raise
    \/ personal_click
    \/ confirm_visible
    \/ confirm_not_visible
    \/ install_doubleclick_stop
    \/ install_raise
    \/ alarm_start
    \/ alarm_wait_stopped
    \/ user_dblclick
    \/ user_navigate
    \/ \E i \in 1..Len(loops) : run_check(i)
    \/ \E i \in 1..Len(loops) : run_beep_end(i)
    \/ \E i \in 1..Len(loops) : run_wait_tick(i)
    \/ \E i \in 1..Len(loops) : run_wait_timeout(i)
    \/ \E i \in 1..Len(loops) : run_wait_signalled(i)

Spec == Init /\ [][Next]_vars

\* The event loop runs a task that is ready, timers fire and time passes
\* while run_booking awaits wait_stopped
LoopStep ==
    \E i \in 1..Len(loops) :
        \/ run_check(i)
        \/ run_beep_end(i)
        \/ run_wait_tick(i)
        \/ run_wait_timeout(i)
        \/ run_wait_signalled(i)

FairSpec == Spec /\ WF_vars(LoopStep) /\ WF_vars(alarm_wait_stopped)

\* A step of _poll_until_select_modules.  Every await of the loop ends: the
\* visibility wait and the overlay probes have timeouts, the sleep is
\* shorter than a second, click and reload return or raise
PollStep ==
    \/ poll_primary_click
    \/ poll_primary_miss
    \/ poll_fallback
    \/ poll_fallback_scan_raise
    \/ poll_reload_ok
    \/ poll_reload_err
    \/ (pc = "privacy" /\ cont = "poll" /\ attempts # <<>>
          /\ handle_privacy_popup)

\* The program with a poll loop that keeps running
PollFairSpec == Spec /\ WF_vars(PollStep)

(***************************************************************************)
(* AlarmController on its own: a client that calls start() and stop() in   *)
(* any order while the event loop runs the _run tasks                      *)
(***************************************************************************)
AlarmInit ==
    /\ students = <<"a@x">>
    /\ idx = 0
    /\ results = <<>>
    /\ printed = <<>>
    /\ browserOpen = FALSE
    /\ openCtx = {}
    /\ pc = "client"
    /\ cont = "poll"
    /\ ok = FALSE
    /\ exc = NoExc
    /\ page = BlankPage
    /\ attempts = <<>>
    /\ delay = 0
    /\ filled = FALSE
    /\ lastLog = "none"
    /\ stopFlag = FALSE
    /\ task = 0
    /\ loops = <<>>
    /\ binding = FALSE
    /\ initScript = FALSE
    /\ listener = FALSE
    /\ dblClicks = 0
    /\ tried = <<>>
    /\ form = NoForm
    /\ loader = NoLoader

client_start ==
    /\ pc = "client"
    /\ (task = 0 \/ TaskDone) => Len(loops) < MaxStarts
    /\ start
    /\ UNCHANGED <<mainVars, flowVars, pageEvtVars>>
    /\ UNCHANGED detailVars

client_stop ==
    /\ pc = "client"
    /\ stop
    /\ UNCHANGED <<mainVars, flowVars, pageEvtVars>>
    /\ UNCHANGED detailVars

AlarmNext ==
    \/ client_start
    \/ client_stop
    \/ \E i \in 1..Len(loops) : run_check(i)
    \/ \E i \in 1..Len(loops) : run_beep_end(i)
    \/ \E i \in 1..Len(loops) : run_wait_tick(i)
    \/ \E i \in 1..Len(loops) : run_wait_timeout(i)
    \/ \E i \in 1..Len(loops) : run_wait_signalled(i)

AlarmSpec == AlarmInit /\ [][AlarmNext]_vars

(***************************************************************************)
(* Student data: Student, build_students, load_students_from_csv           *)
(*                                                                         *)
(* main before main_async.  The arguments, the CSV file and the            *)
(* environment are inputs; the loader reads the file row by row, and a     *)
(* read can raise at any row.                                              *)
(***************************************************************************)

\* The fields of the Student dataclass; a CSV column has the field's name
Fields == {"email", "password", "phone", "first_name", "surname", "county",
           "dob", "place_of_birth", "zip_code"}

DUMMY_STUDENT ==
    [email |-> "dummy@example.com", password |-> "DummyPass123!",
     phone |-> "+254700000000", first_name |-> "Test", surname |-> "User",
     county |-> "Nairobi", dob |-> "2000-01-01",
     place_of_birth |-> "Nairobi", zip_code |-> "00100"]

\* The environment variable student_from_env reads for each field
EnvVar ==
    [email |-> "GOETHE_EMAIL", password |-> "GOETHE_PASSWORD",
     phone |-> "GOETHE_PHONE", first_name |-> "GOETHE_FIRST_NAME",
     surname |-> "GOETHE_SURNAME", county |-> "GOETHE_COUNTY",
     dob |-> "GOETHE_DOB", place_of_birth |-> "GOETHE_PLACE_OF_BIRTH",
     zip_code |-> "GOETHE_ZIP"]

\* Data lines a CSV file can hold, by the cells they have under a full header
RowValues ==
    [r1 |-> [email |-> "a@x", password |-> "pw-a", phone |-> "+1",
             first_name |-> "Ann", surname |-> "Ash", county |-> "Kiambu",
             dob |-> "1999-09-09", place_of_birth |-> "Thika",
             zip_code |-> "01000"],
     r2 |-> [email |-> "b@x", password |-> "pw-b", phone |-> "",
             first_name |-> "Bo", surname |-> "Birch", county |-> "",
             dob |-> "2001-02-03", place_of_birth |-> "Nakuru",
             zip_code |-> ""]]

\* Header lines: every column, or the credentials only
Headers == {Fields, {"email", "password"}}

\* csv.DictReader: the dict of one data line under the file's header
RowDict(header, line) == [c \in header |-> RowValues[line][c]]

\* Student.from_row: row.get(field, "") for each field
from_row(row) == [f \in Fields |-> IF f \in DOMAIN row THEN row[f] ELSE ""]

\* The files: a header, data lines, and the item at which reading raises
\* (0: never; Len(lines) + 1: after the last row, before the end is seen)
CsvFiles ==
    UNION {[header : Headers,
            lines : [1..n -> DOMAIN RowValues],
            failAt : 0 .. (n + 1)] : n \in 0..MaxRows}

\* --csv: absent or empty, a path that cannot be opened, a path that opens
CsvPaths == {"none", "unopenable", "file"}

\* os.environ after load_env: nothing set, the e-mail only, every variable
Environments ==
    {[v \in {EnvVar[f] : f \in S} |-> "env-value"] :
        S \in {{}, {"email"}, Fields}}

\* student_from_env: os.getenv(variable, embedded value) for each field
student_from_env(env) ==
    [f \in Fields |-> IF EnvVar[f] \in DOMAIN env THEN env[EnvVar[f]]
                      ELSE DUMMY_STUDENT[f]]

\* load_students_from_csv without the "or [DUMMY_STUDENT]" of its return
students_as_read(read) == read

\* load_students_from_csv, line 562: students or [DUMMY_STUDENT]
students_or_default(read) == IF read = <<>> THEN <<DUMMY_STUDENT>> ELSE read

LoaderInit ==
    /\ students = <<"a@x">>
    /\ idx = 0
    /\ results = <<>>
    /\ printed = <<>>
    /\ browserOpen = FALSE
    /\ openCtx = {}
    /\ pc = "build_students"
    /\ cont = "poll"
    /\ ok = FALSE
    /\ exc = NoExc
    /\ page = BlankPage
    /\ attempts = <<>>
    /\ delay = 0
    /\ filled = FALSE
    /\ lastLog = "none"
    /\ stopFlag = FALSE
    /\ task = 0
    /\ loops = <<>>
    /\ binding = FALSE
    /\ initScript = FALSE
    /\ listener = FALSE
    /\ dblClicks = 0
    /\ tried = <<>>
    /\ form = NoForm
    /\ \E ie \in BOOLEAN, eo \in BOOLEAN, p \in CsvPaths, f \in CsvFiles,
          e \in Environments :
         loader = [at |-> "build", ignore_env |-> ie, env_only |-> eo,
                   csv_path |-> p, file |-> f, env |-> e,
                   read |-> <<>>, result |-> <<>>]

\* build_students with both env_only branches reading the environment
build_env_only_reads_env ==
    /\ loader.at = "build"
    /\ loader.env_only
    /\ loader' = [loader EXCEPT
                    !.at = "returned",
                    !.result = <<student_from_env(loader.env)>>]
    /\ UNCHANGED <<mainVars, flowVars, alarmVars, pageEvtVars, tried, form>>

\* build_students, env_only: [DUMMY_STUDENT] or [student_from_env()]
build_env_only ==
    /\ loader.at = "build"
    /\ loader.env_only
    /\ loader' = [loader EXCEPT
                    !.at = "returned",
                    !.result = IF loader.ignore_env
                                 THEN <<DUMMY_STUDENT>>
                                 ELSE <<student_from_env(loader.env)>>]
    /\ UNCHANGED <<mainVars, flowVars, alarmVars, pageEvtVars, tried, form>>

\* build_students, not env_only: load_students_from_csv(csv_path) is called,
\* whatever ignore_env is
build_from_csv ==
    /\ loader.at = "build"
    /\ ~loader.env_only
    /\ loader' = [loader EXCEPT !.at = "load"]
    /\ UNCHANGED <<mainVars, flowVars, alarmVars, pageEvtVars, tried, form>>

\* load_students_from_csv, lines 552-553: if not path
load_no_path ==
    /\ loader.at = "load"
    /\ loader.csv_path = "none"
    /\ loader' = [loader EXCEPT !.at = "returned",
                                !.result = <<DUMMY_STUDENT>>]
    /\ UNCHANGED <<mainVars, flowVars, alarmVars, pageEvtVars, tried, form>>

\* load_students_from_csv, lines 554-557: students = []; open; DictReader
load_open_ok ==
    /\ loader.at = "load"
    /\ loader.csv_path = "file"
    /\ loader' = [loader EXCEPT !.at = "read", !.read = <<>>]
    /\ UNCHANGED <<mainVars, flowVars, alarmVars, pageEvtVars, tried, form>>

\* load_students_from_csv: open raises; except logs; line 562 returns
load_open_raise ==
    /\ loader.at = "load"
    /\ loader.csv_path = "unopenable"
    /\ lastLog' = "ERROR csv read error"
    /\ loader' = [loader EXCEPT !.at = "returned",
                                !.result = students_or_default(<<>>)]
    /\ UNCHANGED <<mainVars, pc, cont, ok, exc, page, attempts, delay, filled>>
    /\ UNCHANGED <<alarmVars, pageEvtVars, tried, form>>

\* load_students_from_csv, lines 558-559: one more row is read and appended
load_row ==
    /\ loader.at = "read"
    /\ Len(loader.read) < Len(loader.file.lines)
    /\ loader.file.failAt # Len(loader.read) + 1
    /\ loader' = [loader EXCEPT !.read =
          Append(@, from_row(RowDict(loader.file.header,
                                     loader.file.lines[Len(loader.read) + 1])))]
    /\ UNCHANGED <<mainVars, flowVars, alarmVars, pageEvtVars, tried, form>>

\* load_students_from_csv: the reader raises instead of giving the next
\* item; except logs (lines 560-561); line 562 returns
load_row_raise ==
    /\ loader.at = "read"
    /\ loader.file.failAt = Len(loader.read) + 1
    /\ lastLog' = "ERROR csv read error"
    /\ loader' = [loader EXCEPT !.at = "returned",
                                !.result = students_or_default(loader.read)]
    /\ UNCHANGED <<mainVars, pc, cont, ok, exc, page, attempts, delay, filled>>
    /\ UNCHANGED <<alarmVars, pageEvtVars, tried, form>>

\* load_students_from_csv: the rows are exhausted; line 562 returns
load_eof ==
    /\ loader.at = "read"
    /\ Len(loader.read) = Len(loader.file.lines)
    /\ loader.file.failAt # Len(loader.read) + 1
    /\ loader' = [loader EXCEPT !.at = "returned",
                                !.result = students_or_default(loader.read)]
    /\ UNCHANGED <<mainVars, flowVars, alarmVars, pageEvtVars, tried, form>>

LoaderNext ==
    \/ build_env_only
    \/ build_from_csv
    \/ load_no_path
    \/ load_open_ok
    \/ load_open_raise
    \/ load_row
    \/ load_row_raise
    \/ load_eof

LoaderSpec == LoaderInit /\ [][LoaderNext]_vars

(***************************************************************************)
(* _fill_personal_form element by element                                  *)
(*                                                                         *)
(* The form starts after query_selector_all has returned (line 395).  An   *)
(* element's lower-cased "name placeholder aria-label" text is described   *)
(* by the candidate keywords that are substrings of it.                    *)
(***************************************************************************)

\* _fill_personal_form, lines 380-392: the candidate list, in its order
mapping(student) ==
    << <<"phone", student.phone>>,
       <<"first", student.first_name>>,
       <<"given", student.first_name>>,
       <<"sur", student.surname>>,
       <<"last", student.surname>>,
       <<"county", student.county>>,
       <<"birth", student.place_of_birth>>,
       <<"zip", student.zip_code>>,
       <<"post", student.zip_code>>,
       <<"date", student.dob>>,
       <<"dob", student.dob>> >>

Keywords == {mapping(DUMMY_STUDENT)[i][1] : i \in 1..11}

\* the fields of Student the form uses
FormFields == Fields \ {"email", "password"}

\* The list with the pairs of empty value kept
lower_map_unfiltered(student) == mapping(student)

\* line 393: [(k.lower(), v) for k, v in mapping if v]; the keys are
\* lower-case already
NonEmptyValue(kv) == kv[2] # ""
lower_map(student) == SelectSeq(mapping(student), NonEmptyValue)

\* lines 401-402: the first pair of the list whose key is in the text; 0
\* when no key is
RECURSIVE FirstMatch(_, _, _)
FirstMatch(lm, txt, i) ==
    IF i > Len(lm) THEN 0
    ELSE IF lm[i][1] \in txt THEN i
    ELSE FirstMatch(lm, txt, i + 1)

\* match_txt, by the keywords that are substrings of it
Texts == {T \in SUBSET Keywords : Cardinality(T) <= MaxKeywords}

\* The element of the current iteration, as far as it is known: its text,
\* its tag, and where it raised: "read" when get_attribute raises; "fill"
\* when evaluate, select_option or fill raises
NoElement == [txt |-> {}, tag |-> "none", fault |-> "none"]

\* Student records, some of their fields empty (a CSV without the column, an
\* empty cell, an empty environment variable)
FormStudents ==
    {[f \in Fields |-> IF f \in E THEN "" ELSE RowValues.r1[f]] :
        E \in {S \in SUBSET FormFields : Cardinality(S) <= MaxEmptyFields}}

FormInit ==
    /\ students = <<"a@x">>
    /\ idx = 1
    /\ results = <<>>
    /\ printed = <<>>
    /\ browserOpen = TRUE
    /\ openCtx = {1}
    /\ pc = "personal"
    /\ cont = "poll"
    /\ ok = FALSE
    /\ exc = NoExc
    /\ page = [loc |-> "logged_in", dismissRan |-> TRUE, typed |-> {}]
    /\ attempts = <<>>
    /\ delay = 0
    /\ filled = TRUE
    /\ lastLog = "INFO personal form step"
    /\ stopFlag = FALSE
    /\ task = 0
    /\ loops = <<>>
    /\ binding = FALSE
    /\ initScript = FALSE
    /\ listener = FALSE
    /\ dblClicks = 0
    /\ tried = <<>>
    /\ loader = NoLoader
    /\ \E s \in FormStudents, n \in 0..MaxElements :
         form = [at |-> "for", student |-> s, left |-> n, el |-> NoElement,
                 writes |-> <<>>, raised |-> FALSE, any |-> FALSE]

\* line 396: "for inp in inputs" takes the next element
form_for_next ==
    /\ pc = "personal"
    /\ form.at = "for"
    /\ form.left > 0
    /\ form' = [form EXCEPT !.at = "attrs", !.left = @ - 1,
                            !.el = NoElement, !.writes = <<>>]
    /\ UNCHANGED <<mainVars, flowVars, alarmVars, pageEvtVars, tried, loader>>

\* the for loop is exhausted; _try_click_text(page, TXT_CONTINUE) is next
form_scan_end ==
    /\ pc = "personal"
    /\ form.at = "for"
    /\ form.left = 0
    /\ form' = [form EXCEPT !.at = "continue", !.el = NoElement,
                            !.writes = <<>>]
    /\ page' = [page EXCEPT !.typed =
                  @ \cup (IF form.any THEN {<<"details", 0>>} ELSE {})]
    /\ pc' = "personal_click"
    /\ UNCHANGED <<mainVars, cont, ok, exc, attempts, delay, filled, lastLog>>
    /\ UNCHANGED <<alarmVars, pageEvtVars, tried, loader>>

\* lines 398-401: the three attributes are read; match_txt is built
form_read_attrs ==
    /\ pc = "personal"
    /\ form.at = "attrs"
    /\ \E txt \in Texts :
         form' = [form EXCEPT !.at = "match", !.el.txt = txt]
    /\ UNCHANGED <<mainVars, flowVars, alarmVars, pageEvtVars, tried, loader>>

\* lines 398-400: get_attribute raises; lines 411-412 log it; next element
form_read_raise ==
    /\ pc = "personal"
    /\ form.at = "attrs"
    /\ form' = [form EXCEPT !.at = "for", !.el.fault = "read",
                            !.raised = TRUE]
    /\ lastLog' = "ERROR field fill error"
    /\ UNCHANGED <<mainVars, pc, cont, ok, exc, page, attempts, delay, filled>>
    /\ UNCHANGED <<alarmVars, pageEvtVars, tried, loader>>

\* lines 401-402: no key of lower_map is in match_txt; nothing is written
form_no_match ==
    /\ pc = "personal"
    /\ form.at = "match"
    /\ FirstMatch(lower_map(form.student), form.el.txt, 1) = 0
    /\ form' = [form EXCEPT !.at = "for"]
    /\ UNCHANGED <<mainVars, flowVars, alarmVars, pageEvtVars, tried, loader>>

\* lines 402-410: the first matching pair: tagName is evaluated, the value
\* is written with select_option or fill, logged, and the loop breaks
form_write ==
    /\ pc = "personal"
    /\ form.at = "match"
    /\ LET lm == lower_map(form.student)
           k == FirstMatch(lm, form.el.txt, 1)
       IN  /\ k # 0
           /\ \E tag \in {"input", "select"} :
                form' = [form EXCEPT
                           !.at = "for",
                           !.el.tag = tag,
                           !.writes = << [key |-> lm[k][1],
                                          value |-> lm[k][2],
                                          via |-> IF tag = "select"
                                                    THEN "select_option"
                                                    ELSE "fill"] >>,
                           !.any = TRUE]
    /\ lastLog' = "INFO filled field"
    /\ UNCHANGED <<mainVars, pc, cont, ok, exc, page, attempts, delay, filled>>
    /\ UNCHANGED <<alarmVars, pageEvtVars, tried, loader>>

\* _fill_personal_form with the try around the for loop: an exception of
\* evaluate, select_option or fill ends the scan
form_write_raise_ends_scan ==
    /\ pc = "personal"
    /\ form.at = "match"
    /\ FirstMatch(lower_map(form.student), form.el.txt, 1) # 0
    /\ form' = [form EXCEPT !.at = "continue", !.el.fault = "fill",
                            !.raised = TRUE]
    /\ lastLog' = "ERROR field fill error"
    /\ pc' = "personal_click"
    /\ UNCHANGED <<mainVars, cont, ok, exc, page, attempts, delay, filled>>
    /\ UNCHANGED <<alarmVars, pageEvtVars, tried, loader>>

\* lines 403-407: evaluate, select_option or fill raises for the matching
\* pair; lines 411-412 log it; next element
form_write_raise ==
    /\ pc = "personal"
    /\ form.at = "match"
    /\ FirstMatch(lower_map(form.student), form.el.txt, 1) # 0
    /\ form' = [form EXCEPT !.at = "for", !.el.fault = "fill",
                            !.raised = TRUE]
    /\ lastLog' = "ERROR field fill error"
    /\ pc' = pc
    /\ UNCHANGED <<mainVars, cont, ok, exc, page, attempts, delay, filled>>
    /\ UNCHANGED <<alarmVars, pageEvtVars, tried, loader>>

FormNext ==
    \/ form_for_next
    \/ form_scan_end
    \/ form_read_attrs
    \/ form_read_raise
    \/ form_no_match
    \/ form_write
    \/ form_write_raise
    \/ personal_click

FormSpec == FormInit /\ [][FormNext]_vars

(***************************************************************************)
(* Predicates the properties are stated with                               *)
(***************************************************************************)

\* a step of this run_booking has failed and asked for the restart
StepFailed == cont = "fail"

\* run_booking has returned (no exception): _run_for_student is at finally
RunBookingReturned == pc = "ctx_close" /\ exc = NoExc

\* inside the while True of _poll_until_select_modules
InPollLoop ==
    \/ pc \in {"poll_primary", "poll_fallback", "poll_reload"}
    \/ pc = "privacy" /\ cont = "poll" /\ attempts # <<>>

\* the page as run_booking has it when it first enters the poll loop
InitialNavigationState == [StartDocument EXCEPT !.dismissRan = TRUE]

PrimaryMisses == {"primary_timeout", "primary_error"}
FallbackMisses == {"fallback_none", "fallback_error"}
ClickEvents == {"primary_click", "fallback_click"}

\* exceptions raised inside run_booking
FlowExcs == {"goto", "click", "query", "install"}

ControllerState ==
    IF task = 0 THEN "IDLE"
    ELSE IF loops[task].pc = "done" THEN "STOPPED"
    ELSE "RUNNING"

AlarmRinging == ControllerState = "RUNNING"

Beeping == task # 0 /\ loops[task].pc = "beep"

(***************************************************************************)
(* Properties                                                              *)
(***************************************************************************)

\* C1: a step failure never by itself ends the student's attempt: the session
\* restarts and polls again, so run_booking does not return because a step
\* failed.
C1_StepFailureNeverEndsAttempt == ~(StepFailed /\ RunBookingReturned)

\* C2: when an exception raised inside a student's flow has ended that flow,
\* the run still ends with one result per student, the failing student's
\* being (email, failure).
C2_FlowExceptionRecordedOthersRun ==
    (pc \in {"crashed", "done"} /\ exc \in FlowExcs) =>
        /\ Len(results) = Len(students)
        /\ results[idx] = <<students[idx], FALSE>>

\* C3: when a failing step reports failure (run_booking returns False), the
\* page is on the start URL in a fresh document, the overlay-dismiss step has
\* run in it and nothing typed during the failed attempt is left: the page is
\* as it was when the poll loop was first entered.
C3_RestartReturnsToInitialNavigationState ==
    /\ (StepFailed /\ RunBookingReturned) =>
           (page = InitialNavigationState /\ ~ok)
    /\ (pc = "poll_primary" /\ attempts = <<>>) => page = InitialNavigationState

C3_Witness ==
    /\ StepFailed
    /\ RunBookingReturned
    /\ lastLog = "PASS privacy accepted"
    /\ idx = 2

\* C4: control leaves the poll loop only by a completed click on the primary
\* control or on a fallback enabled button; no exception leaves it.
C4_PollLoopExitsOnlyByClick ==
    [][(InPollLoop /\ ~InPollLoop') =>
          /\ pc' = "continue_1"
          /\ exc' = NoExc
          /\ attempts' # <<>>
          /\ attempts'[Len(attempts')] \in ClickEvents]_vars

C4_Witness ==
    /\ pc = "continue_1"
    /\ attempts = <<"primary_error", "fallback_click">>

\* C5: no navigation (page.goto) and no reload ends with an exception that
\* leaves the student's run.
C5_NavigationOrReloadFailureNotFatal ==
    [][(pc \in {"goto", "poll_reload"}) => exc' = NoExc]_vars

\* C6: in every poll iteration the attempts come in the order primary,
\* fallback scan, reload; the scan runs only after the primary control was not
\* clicked, the reload only after neither was clicked, and after a successful
\* reload the overlay-dismiss step has run when the next primary attempt
\* begins.
C6_PollIterationOrder ==
    /\ pc = "poll_fallback" =>
           (Len(attempts) = 1 /\ attempts[1] \in PrimaryMisses)
    /\ pc = "poll_reload" =>
           /\ Len(attempts) = 2
           /\ attempts[1] \in PrimaryMisses
           /\ attempts[2] \in FallbackMisses
    /\ pc = "poll_primary" =>
           \/ attempts = <<>>
           \/ /\ Len(attempts) = 3
              /\ attempts[1] \in PrimaryMisses
              /\ attempts[2] \in FallbackMisses
              /\ \/ attempts[3] = "reload_err"
                 \/ attempts[3] = "reload_ok" /\ page.dismissRan
    /\ pc = "continue_1" =>
           \/ attempts = <<"primary_click">>
           \/ /\ Len(attempts) = 2
              /\ attempts[1] \in PrimaryMisses
              /\ attempts[2] = "fallback_click"

C6_Witness ==
    /\ pc = "poll_primary"
    /\ Len(attempts) = 3
    /\ attempts[3] = "reload_ok"
    /\ page.dismissRan

\* C7: every reload delay is at least 0 and less than MAX_REFRESH_MS
\* milliseconds (delay / DelayUnit seconds < MAX_REFRESH_MS / 1000 seconds).
C7_DelayInRange ==
    /\ delay >= 0
    /\ delay * 1000 < MAX_REFRESH_MS * DelayUnit

C7_Witness ==
    /\ pc = "poll_reload"
    /\ delay = rand_refresh_delay(Pow2(MantBits) - 1)
    /\ 2 * delay > DelayUnit

\* C8: a started alarm loop ends only with the stop flag set, and only a
\* double-click on a document that has the listener sets the flag; a beep is
\* followed by a wait, a wait that no stop ends lasts ALARM_REPEAT_SEC seconds
\* and is followed by the next beep; while the flag is clear the alarm always
\* beeps again.
C8_Step ==
    /\ \A i \in 1..Len(loops) :
         i <= Len(loops') =>
           /\ (loops[i].pc # "done" /\ loops'[i].pc = "done") => stopFlag
           /\ (loops[i].pc = "beep" /\ loops'[i] # loops[i]) =>
                  (loops'[i].pc = "wait" /\ loops'[i].waited = 0)
           /\ (loops[i].pc = "wait" /\ loops'[i].pc # "wait" /\ ~stopFlag) =>
                  (loops[i].waited = ALARM_REPEAT_SEC /\ loops'[i].pc = "check")
           /\ (loops[i].pc = "check" /\ loops'[i] # loops[i] /\ ~stopFlag) =>
                  loops'[i].pc = "beep"
    /\ (~stopFlag /\ stopFlag') =>
           (dblClicks' = dblClicks + 1 /\ listener /\ binding)

C8_AlarmRingsUntilAcknowledged ==
    /\ [][C8_Step]_vars
    /\ [](\A i \in 1..Len(loops) : loops[i].waited <= ALARM_REPEAT_SEC)
    /\ (AlarmRinging ~> (Beeping \/ stopFlag))

C8_Witness ==
    /\ ControllerState = "STOPPED"
    /\ stopFlag
    /\ loops[task].beeps >= 2

\* C9 (as claimed): STOPPED is terminal: no operation of the controller takes
\* it out of STOPPED.
C9_StoppedIsTerminal ==
    [][ControllerState = "STOPPED" => ControllerState' = "STOPPED"]_vars

\* C9 (amended): the controller moves IDLE -> RUNNING -> STOPPED, and it
\* leaves STOPPED only by a later start(), which clears the stop flag and
\* creates a new loop; without it nothing beeps in STOPPED.
C9_OnlyStartLeavesStopped ==
    [][/\ <<ControllerState, ControllerState'>> \in
            {<<"IDLE", "IDLE">>, <<"IDLE", "RUNNING">>,
             <<"RUNNING", "RUNNING">>, <<"RUNNING", "STOPPED">>,
             <<"STOPPED", "STOPPED">>, <<"STOPPED", "RUNNING">>}
       /\ (ControllerState = "STOPPED" /\ ControllerState' # "STOPPED") =>
             /\ Len(loops') = Len(loops) + 1
             /\ task' = Len(loops')
             /\ loops'[task'] = NewLoop
             /\ ~stopFlag'
       /\ ControllerState = "STOPPED" =>
             \A i \in 1..Len(loops) : loops'[i] = loops[i]]_vars

C9_Witness ==
    /\ Len(loops) = 2
    /\ loops[1].pc = "done"
    /\ loops[2].pc = "beep"

\* C10: a double-click on the page while the alarm is RUNNING sets the stop
\* flag.
C10_DoubleClickSetsStopFlag ==
    [][(AlarmRinging /\ dblClicks' = dblClicks + 1) => stopFlag']_vars

\* The orchestrator is between two students, or has left its loop
BetweenStudents == pc \in {"loop", "done"}

\* The run was ended by an exception that came out of a student's flow
EndedByFlowException == pc = "crashed" /\ exc \in FlowExcs

\* C11: the context opened for a student is closed before the orchestrator
\* starts the next student or finishes, whether the student's flow returned
\* success, returned failure, or raised an exception.
C11_ContextClosedAfterEveryStudent ==
    (BetweenStudents \/ EndedByFlowException) => openCtx = {}

\* The first student's flow succeeded and its context was closed; the second
\* student's flow raised and its context was closed all the same
C11_Witness ==
    /\ EndedByFlowException
    /\ idx = 2
    /\ Len(results) = 1
    /\ results[1][2]
    /\ openCtx = {}

\* C12: at every moment at most one context is open, the one of the student
\* in progress; students are taken strictly in input order, and a student's
\* context is opened only after every earlier student's context was closed.
C12_OneStudentAtATime ==
    /\ [](/\ Cardinality(openCtx) <= 1
          /\ openCtx \subseteq {idx}
          /\ Len(results) <= idx
          /\ \A i \in 1..Len(results) : results[i][1] = students[i])
    /\ [][/\ idx' \in {idx, idx + 1}
          /\ idx' # idx => (openCtx = {} /\ Len(results) = idx)
          /\ openCtx' # openCtx =>
                \/ (openCtx = {} /\ openCtx' = {idx})
                \/ (openCtx = {idx} /\ openCtx' = {})]_vars

\* The second student's context is the only one open
C12_Witness ==
    /\ idx = 2
    /\ openCtx = {2}
    /\ Len(results) = 1
    /\ pc = "alarm_wait"

\* C13: when the run ends, results holds one (email, flag) pair per input
\* student, in input order, one line "<email>: SUCCESS|FAILED" was printed
\* per student, and a flag is SUCCESS only if the student's flow reached the
\* confirmation page and its alarm was acknowledged.
C13_OneResultLinePerStudent ==
    /\ (pc = "done" \/ EndedByFlowException) =>
          /\ Len(results) = Len(students)
          /\ Len(printed) = Len(students)
          /\ \A i \in 1..Len(students) :
                /\ results[i][1] = students[i]
                /\ printed[i] = <<students[i],
                                  IF results[i][2] THEN "SUCCESS" ELSE "FAILED">>
    /\ ok => (page.loc = "confirmation_visible" /\ stopFlag /\ TaskDone)
    /\ (pc = "loop" /\ idx > 0) => results[idx] = <<students[idx], ok>>

\* build_students has returned
Loaded == loader.at = "returned"

\* The CSV file cannot give a single row: no data line, or reading raises
\* before the first row
YieldsNoRow == Len(loader.file.lines) = 0 \/ loader.file.failAt = 1

\* Reading the CSV fails: open raises, or the reader raises at some item
ReadFails ==
    \/ loader.csv_path = "unopenable"
    \/ loader.csv_path = "file" /\ loader.file.failAt # 0

\* C14: load_students_from_csv never returns an empty list; for a missing
\* path, or a CSV that yields zero rows, it returns exactly the embedded
\* default student; build_students returns a non-empty list for every
\* combination of its flags.
C14_LoaderNeverEmpty ==
    Loaded =>
        /\ Len(loader.result) >= 1
        /\ (~loader.env_only /\ (loader.csv_path # "file" \/ YieldsNoRow)) =>
              loader.result = <<DUMMY_STUDENT>>

\* A file with a header and no data line was read to its end
C14_Witness ==
    /\ Loaded
    /\ ~loader.env_only
    /\ loader.csv_path = "file"
    /\ loader.file.lines = <<>>
    /\ loader.file.failAt = 0
    /\ loader.result = <<DUMMY_STUDENT>>

\* C15: whenever reading the CSV fails (the file cannot be opened, or an
\* error is raised while rows are read, at any row), the error is logged and
\* the loader returns exactly the single default student.
C15_ReadFailureFallsBackToDefault ==
    (Loaded /\ ~loader.env_only /\ ReadFails) =>
        /\ lastLog = "ERROR csv read error"
        /\ loader.result = <<DUMMY_STUDENT>>

\* C16: with env_only and ignore_env both set, build_students returns
\* exactly the embedded default student, for every CSV path, file and
\* environment.
C16_BothFlagsGiveEmbeddedDefault ==
    (Loaded /\ loader.env_only /\ loader.ignore_env) =>
        loader.result = <<DUMMY_STUDENT>>

\* Both flags set, with a readable CSV of two rows and every variable set
C16_Witness ==
    /\ Loaded
    /\ loader.env_only
    /\ loader.ignore_env
    /\ loader.csv_path = "file"
    /\ Len(loader.file.lines) = 2
    /\ loader.file.failAt = 0
    /\ DOMAIN loader.env = {EnvVar[f] : f \in Fields}
    /\ loader.result = <<DUMMY_STUDENT>>

\* An iteration of the form's for loop has just ended
ElementProcessed == form.at = "for" /\ form.el # NoElement

\* C17 (as claimed): the value written to an element is the one paired with
\* the first keyword of the candidate list that occurs in the element's
\* text, and at most one value is written to it, for every student record.
C17_FirstListedKeywordWins ==
    ElementProcessed =>
        /\ Len(form.writes) <= 1
        /\ \A n \in 1..Len(form.writes) :
              LET m == mapping(form.student)
              IN  \E i \in 1..Len(m) :
                    /\ m[i][1] \in form.el.txt
                    /\ \A j \in 1..(i - 1) : m[j][1] \notin form.el.txt
                    /\ form.writes[n].key = m[i][1]
                    /\ form.writes[n].value = m[i][2]

\* C17 (amended): the value written to an element is the one paired with
\* the first keyword of the candidate list that occurs in the element's text
\* and whose value in the student record is not empty; at most one value is
\* written; an element that does not raise and has such a keyword is
\* written.
C17_FirstKeywordWithValueWins ==
    ElementProcessed =>
        LET m == mapping(form.student)
            Hit(i) == m[i][1] \in form.el.txt /\ m[i][2] # ""
        IN  /\ Len(form.writes) <= 1
            /\ \A n \in 1..Len(form.writes) :
                  \E i \in 1..Len(m) :
                    /\ Hit(i)
                    /\ \A j \in 1..(i - 1) : ~Hit(j)
                    /\ form.writes[n].key = m[i][1]
                    /\ form.writes[n].value = m[i][2]
            /\ (form.el.fault = "none" /\ \E i \in 1..Len(m) : Hit(i)) =>
                  Len(form.writes) = 1

\* An element whose text has "phone" and "first", for a student without a
\* phone number: the first name is written
C17_Witness ==
    /\ ElementProcessed
    /\ form.el.txt = {"phone", "first"}
    /\ form.student.phone = ""
    /\ Len(form.writes) = 1
    /\ form.writes[1].value = form.student.first_name

\* C18: an exception raised while one form element is read or filled is
\* logged and skipped: the element stays unfilled, the later elements are
\* still processed, and the step ends only by the CONTINUE control: True
\* exactly when it was found and clicked.
C18_ElementExceptionSkipped ==
    /\ [][pc = "personal" =>
            /\ pc' \in {"personal", "personal_click"}
            /\ exc' = NoExc
            /\ cont' = cont
            /\ pc' = "personal_click" => (form.at = "for" /\ form.left = 0)
            /\ (form.el.fault = "none" /\ form'.el.fault # "none") =>
                  /\ lastLog' = "ERROR field fill error"
                  /\ form'.writes = <<>>
                  /\ form'.at = "for"
                  /\ form'.left = form.left]_vars
    /\ [](form.at = "continue" => form.left = 0)
    /\ []((ElementProcessed /\ form.el.fault # "none") => form.writes = <<>>)
    /\ [][pc = "personal_click" =>
            /\ (pc' = "continue_2") = (page'.loc = "details_filled")
            /\ pc' = "goto" => (cont' = "fail" /\ page' = page)]_vars

\* An element raised, and an element after it was filled
C18_Witness ==
    /\ ElementProcessed
    /\ form.raised
    /\ form.el.fault = "none"
    /\ Len(form.writes) = 1

\* The positions of run_booking after the poll loop, in the order of its
\* text, and the location each one needs: the one its predecessor's click
\* leads to
SequencerSteps ==
    << <<"continue_1", "modules_selected">>,
       <<"book_for_myself", "continued_1">>,
       <<"login", "book_for_self">>,
       <<"login_click", "book_for_self">>,
       <<"personal", "logged_in">>,
       <<"personal_click", "logged_in">>,
       <<"continue_2", "details_filled">>,
       <<"order", "continued_2">>,
       <<"confirm", "order_confirmed">>,
       <<"install", "confirmation_visible">>,
       <<"alarm_start", "confirmation_visible">>,
       <<"alarm_wait", "confirmation_visible">> >>

\* The position of pc in SequencerSteps; 0 outside the sequence
StepRank(p) ==
    IF \E i \in 1..Len(SequencerSteps) : SequencerSteps[i][1] = p
      THEN CHOOSE i \in 1..Len(SequencerSteps) : SequencerSteps[i][1] = p
      ELSE 0

\* The locations of the booking site, in the order the steps reach them
LocOrder ==
    <<"start", "modules_selected", "continued_1", "book_for_self",
      "logged_in", "details_filled", "continued_2", "order_confirmed",
      "confirmation_visible">>

\* C19: the step sequencer is strictly linear: no step is attempted before
\* its predecessor succeeded, none twice, none skipped; the alarm is started
\* only after the order click succeeded and the confirmation text became
\* visible; run_booking returns True only after the alarm loop has stopped.
C19_SequencerIsLinear ==
    /\ [](StepRank(pc) # 0 =>
            /\ page.loc = SequencerSteps[StepRank(pc)][2]
            /\ cont = "poll")
    /\ [][/\ (StepRank(pc) # 0 /\ pc' # pc) =>
               \/ StepRank(pc') = StepRank(pc) + 1
               \/ pc' \in {"goto", "ctx_close"}
          /\ (StepRank(pc) = 0 /\ StepRank(pc') # 0) =>
               (pc' = "continue_1" /\ InPollLoop)
          /\ page'.loc # page.loc =>
               \/ page'.loc \in {"blank", "start"}
               \/ \E i \in 1..(Len(LocOrder) - 1) :
                     page.loc = LocOrder[i] /\ page'.loc = LocOrder[i + 1]
          /\ (task = 0 /\ task' # 0) =>
               (pc = "alarm_start" /\ page.loc = "confirmation_visible")
          /\ (~ok /\ ok') =>
               (pc = "alarm_wait" /\ TaskDone /\ stopFlag)]_vars

\* run_booking has returned True
C19_Witness ==
    /\ RunBookingReturned
    /\ ok
    /\ page.loc = "confirmation_visible"
    /\ TaskDone

\* The selectors of one field that _login has filled, by what each did:
\* exactly the first one that exists and is filled without error
FilledFirstOnly(field, outs) ==
    \A i \in 1..3 :
        (<<field, i>> \in page.typed) =
            (outs[i] = "filled" /\ \A j \in 1..(i - 1) : outs[j] # "filled")

\* C20: _login tries the e-mail selectors in order and stops at the first
\* one that exists and is filled without error, likewise for the password;
\* it succeeds exactly when an e-mail field was filled and a login control
\* was then found and clicked: a missing or unfillable password field alone
\* never fails it, a missing e-mail field fails it (restart) without the
\* login control being clicked.
C20_LoginNeedsEmailOnly ==
    /\ [](pc = "login_click" =>
            /\ FilledFirstOnly("email", tried.email)
            /\ FilledFirstOnly("password", tried.password)
            /\ filled = (\E i \in 1..3 : tried.email[i] = "filled")
            /\ filled => ENABLED (login_click /\ pc' = "personal"))
    /\ [][pc = "login_click" =>
            /\ (pc' = "personal") = (filled /\ page'.loc = "logged_in")
            /\ ~filled =>
                  /\ pc' = "goto"
                  /\ cont' = "fail"
                  /\ page' = page
                  /\ exc' = NoExc
                  /\ lastLog' = "FAIL login step failed restart"]_vars

\* The second e-mail selector was the first one filled (the first raised),
\* and no password field could be filled
C20_Witness ==
    /\ pc = "login_click"
    /\ tried.email[1] = "raises"
    /\ tried.email[2] = "filled"
    /\ tried.email[3] = "filled"
    /\ \A i \in 1..3 : tried.password[i] # "filled"
    /\ filled
    /\ <<"email", 2>> \in page.typed

\* The _run tasks that have not ended
LiveLoops == {i \in 1..Len(loops) : loops[i].pc # "done"}

\* C21: after stop() on a running controller no new beep is started: a beep
\* in progress finishes and the loop exits without waiting out the repeat
\* interval, an interval wait ends at once and the loop exits;
\* wait_stopped() then returns.
C21_StopEndsLoopPromptly ==
    /\ [][(stopFlag /\ stopFlag') =>
            /\ Len(loops') = Len(loops)
            /\ \A i \in 1..Len(loops) :
                  /\ loops'[i].pc = "beep" => loops[i].pc = "beep"
                  /\ loops'[i].beeps = loops[i].beeps
                  /\ loops'[i].waited <= loops[i].waited
                  /\ loops[i].pc = "beep" => loops'[i].pc \in {"beep", "wait"}
                  /\ loops[i].pc = "wait" => loops'[i].pc \in {"wait", "check"}
                  /\ loops[i].pc = "check" => loops'[i].pc \in {"check", "done"}
                  /\ loops[i].pc = "done" => loops'[i].pc = "done"]_vars
    /\ ((AlarmRinging /\ stopFlag) ~> (RunBookingReturned /\ ok))

\* stop() has arrived while a beep is sounding
C21_Witness ==
    /\ pc = "alarm_wait"
    /\ stopFlag
    /\ Beeping

\* C22: start() clears the stop flag before it creates the loop, so a stop()
\* issued before start() is discarded; start() while the loop is running
\* creates no second loop and does not clear a pending stop; at most one
\* loop is active per controller.
C22_OneLoopPerController ==
    /\ [](Cardinality(LiveLoops) <= 1)
    /\ [](LiveLoops \subseteq {task})
    /\ [][/\ Len(loops') # Len(loops) =>
               /\ LiveLoops = {}
               /\ Len(loops') = Len(loops) + 1
               /\ loops'[Len(loops')] = NewLoop
               /\ task' = Len(loops')
               /\ ~stopFlag'
          /\ (stopFlag /\ ~stopFlag') =>
               (LiveLoops = {} /\ Len(loops') = Len(loops) + 1)]_vars

\* The first loop was stopped before its first beep; the stop was still set
\* when start() was called again: it was cleared, and the second loop beeps
C22_Witness ==
    /\ Len(loops) = 2
    /\ loops[1].pc = "done"
    /\ loops[1].beeps = 0
    /\ loops[2].pc = "beep"
    /\ ~stopFlag
    /\ LiveLoops = {2}

\* A poll iteration found neither the primary control nor an enabled button
\* it could click, and goes on to the reload
IterationMisses == pc = "poll_fallback" /\ pc' = "poll_reload"

\* C23: if from some point on every poll iteration finds the primary control
\* visible and clickable or an enabled button, _poll_until_select_modules
\* eventually returns; it returns in no other case: only by a click of one
\* of the two, and a reload, failed or not, leads to the next iteration.
C23_PollLoopTermination ==
    /\ (<>[][~IterationMisses]_vars) => (InPollLoop ~> ~InPollLoop)
    /\ [][(InPollLoop /\ ~InPollLoop') =>
            /\ pc \in {"poll_primary", "poll_fallback"}
            /\ pc' = "continue_1"
            /\ page'.loc = "modules_selected"
            /\ lastLog' \in {"PASS select modules clicked",
                              "PASS exam button clicked"}]_vars
    /\ [][pc = "poll_reload" => (InPollLoop' /\ exc' = NoExc)]_vars

\* The loop has returned in an iteration whose primary wait timed out and
\* whose scan found an enabled button
C23_Witness ==
    /\ pc = "continue_1"
    /\ attempts = <<"primary_timeout", "fallback_click">>
    /\ page.loc = "modules_selected"
    /\ lastLog = "PASS exam button clicked"

=============================================================================
